---- MODULE Spec2Model ----
(***************************************************************************)
(* Model of the token-selection pipeline of src/sampling.cpp:              *)
(* softmax_stable, sort_indices_desc, sample_multinomial,                  *)
(* nucleus_sampling, random_sampling, ras_sampling and sampling_ids.       *)
(*                                                                         *)
(* Numbers.  A C++ float is modelled as a fixed-point number with four     *)
(* decimals: the integer x stands for x / One.  Scores are given in tenths *)
(* (the integer s stands for the score s / 10), so that the vectors of     *)
(* src/test.cpp can be written down exactly.  std::exp is the table        *)
(* ExpTable; like the float it underflows to 0 for very negative           *)
(* arguments.  Token ids and indices are 0-based as in the source;         *)
(* sequences are 1-based, so element i of a vector v is v[i + 1].          *)
(*                                                                         *)
(* Randomness.  A draw of std::discrete_distribution is a nondeterministic *)
(* choice among the indices of positive weight.                            *)
(***************************************************************************)
EXTENDS Integers, Sequences, FiniteSets, TLC

\* ------------------------------------------------------------------ bounds
\* Longest score vector of the enumerated calls.
MaxN == 2
\* Longest decoded history of the enumerated calls.
MaxHist == 2
\* Largest max_trials of the enumerated calls.
MaxTrials == 2
\* Largest win_size of the enumerated ras_sampling calls.
MaxWin == 2
\* Longest vector handed directly to sort_indices_desc / softmax_stable.
MaxLen == 3

\* --------------------------------------------------------------- constants
\* 1.0f in fixed point.
One == 10000
\* -infinity as a score.
NegInf == -100000
\* NaN as the value of a float expression.
NaN == -1
\* Defaults of ras_sampling (the values sampling_ids runs the pipeline with).
DefaultTopP == 8000
DefaultTopK == 25
DefaultWinSize == 10
DefaultTauR == 1000

\* round(One * e^(-k/10)) for k = 0, 1, 2, ...; 0 from k = 100 on.
ExpTable ==
  << 10000, 9048, 8187, 7408, 6703, 6065, 5488, 4966, 4493, 4066,
     3679, 3329, 3012, 2725, 2466, 2231, 2019, 1827, 1653, 1496,
     1353, 1225, 1108, 1003, 907, 821, 743, 672, 608, 550,
     498, 450, 408, 369, 334, 302, 273, 247, 224, 202,
     183, 166, 150, 136, 123, 111, 101, 91, 82, 74,
     67, 61, 55, 50, 45, 41, 37, 33, 30, 27,
     25, 22, 20, 18, 17, 15, 14, 12, 11, 10,
     9, 8, 7, 7, 6, 6, 5, 5, 4, 4,
     3, 3, 3, 2, 2, 2, 2, 2, 2, 1,
     1, 1, 1, 1, 1, 1, 1, 1, 1, 1 >>

\* ------------------------------------------------------------ float helpers
\* F(val), with val computed once: a local variable of the source.
Let(val, F(_)) == CHOOSE r \in { F(x) : x \in {val} } : TRUE

Min(a, b) == IF a < b THEN a ELSE b

Max(a, b) == IF a > b THEN a ELSE b

RECURSIVE SeqSum(_)
SeqSum(s) == IF s = <<>> THEN 0 ELSE Head(s) + SeqSum(Tail(s))

\* *std::max_element(logits.begin(), logits.end()) of a non-empty vector.
RECURSIVE MaxElement(_)
MaxElement(s) ==
  IF Len(s) = 1 THEN s[1]
  ELSE Let(MaxElement(Tail(s)), LAMBDA m : Max(s[1], m))

\* std::exp(x - max_val).  -inf - (-inf) is NaN and exp(NaN) is NaN;
\* -inf - finite is -inf and exp(-inf) is 0.
ExpShifted(x, max_val) ==
  IF max_val = NegInf THEN NaN
  ELSE IF x = NegInf THEN 0
  ELSE IF max_val - x < Len(ExpTable) THEN ExpTable[max_val - x + 1]
  ELSE 0

\* sum_exp += exp_values[i] over the vector; NaN absorbs.
FloatSum(s) ==
  IF \E i \in 1..Len(s) : s[i] = NaN THEN NaN ELSE SeqSum(s)

\* x > 0.0f, which is false for NaN.
GreaterThanZero(x) == x # NaN /\ x > 0

\* --------------------------------------------------------------- Normalizer
\* Lines 17-40: the softmax of a non-empty vector, with the uniform
\* distribution when the sum of the exponentials is not positive.
SoftmaxNonEmpty(logits) ==
  Let(MaxElement(logits), LAMBDA max_val :
  Let([i \in 1..Len(logits) |-> ExpShifted(logits[i], max_val)], LAMBDA exp_values :
  Let(FloatSum(exp_values), LAMBDA sum_exp :
    IF GreaterThanZero(sum_exp)
    THEN [i \in 1..Len(logits) |-> (exp_values[i] * One) \div sum_exp]
    ELSE [i \in 1..Len(logits) |-> One \div Len(logits)])))

\* softmax_stable answering an empty vector with a one-element distribution.
softmax_stable_one_on_empty(logits) ==
  IF Len(logits) = 0 THEN << One >> ELSE SoftmaxNonEmpty(logits)

\* softmax_stable: if (logits.empty()) return {};
softmax_stable(logits) ==
  IF Len(logits) = 0 THEN <<>> ELSE SoftmaxNonEmpty(logits)

\* ------------------------------------------------------------ Rank Selector
\* The comparator of the sort: v[i1] > v[i2], on 0-based indices.
CompareDescGE(v, i1, i2) == v[i1 + 1] >= v[i2 + 1]

CompareDesc(v, i1, i2) == v[i1 + 1] > v[i2 + 1]

\* One step of a stable sort: x, which came after every element of `sorted`
\* in the input, goes before the first element it compares less-than with.
RECURSIVE InsertStable(_, _, _)
InsertStable(v, sorted, x) ==
  IF sorted = <<>> THEN << x >>
  ELSE IF CompareDesc(v, x, Head(sorted)) THEN << x >> \o sorted
  ELSE << Head(sorted) >> \o InsertStable(v, Tail(sorted), x)

RECURSIVE StableSortFrom(_, _, _)
StableSortFrom(v, sorted, i) ==
  IF i >= Len(v) THEN sorted
  ELSE Let(InsertStable(v, sorted, i), LAMBDA next : StableSortFrom(v, next, i + 1))

\* std::iota then std::stable_sort.
sort_indices_desc(v) == StableSortFrom(v, <<>>, 0)

\* ------------------------------------------------------------ weighted draw
\* The indices (0-based) std::discrete_distribution can produce.  No caller
\* passes an empty vector, for which the function throws.
sample_multinomial(probabilities) ==
  { i - 1 : i \in { j \in 1..Len(probabilities) : probabilities[j] > 0 } }

\* -------------------------------------------------------- Truncated Sampler
\* Outcome of a call that threw.
Thrown(kind, work) == [thrown |-> TRUE, kind |-> kind, ids |-> {}, work |-> work]

\* The test of line 89 with the comparison made inclusive.
TopPOpenInclusive(cum_prob, top_p_) == cum_prob <= top_p_

\* if (cum_prob < top_p): checked before the element is added.
TopPOpen(cum_prob, top_p_) == cum_prob < top_p_

\* The loop of lines 86-96 from position i on; st holds cum_prob,
\* filtered_probs and filtered_indices.
RECURSIVE FilterLoop(_, _, _, _, _, _)
FilterLoop(probs, sorted_indices, top_p_, actual_top_k, i, st) ==
  IF i >= actual_top_k THEN st
  ELSE LET idx == sorted_indices[i + 1]
           prob == probs[idx + 1]
       IN  IF TopPOpen(st.cum_prob, top_p_)
           THEN Let([cum_prob |-> st.cum_prob + prob,
                     filtered_probs |-> Append(st.filtered_probs, prob),
                     filtered_indices |-> Append(st.filtered_indices, idx)],
                    LAMBDA next :
                      FilterLoop(probs, sorted_indices, top_p_, actual_top_k, i + 1, next))
           ELSE st

\* Lines 79-104: the filtered distribution, with the fallback to the top
\* element when the loop kept nothing.
Filtered(probs, sorted_indices, top_p_, top_k_) ==
  Let(Min(top_k_, Len(sorted_indices)), LAMBDA actual_top_k :
  Let(FilterLoop(probs, sorted_indices, top_p_, actual_top_k, 0,
        [cum_prob |-> 0, filtered_probs |-> <<>>, filtered_indices |-> <<>>]),
      LAMBDA st :
        IF st.filtered_probs = <<>>
        THEN [filtered_probs |-> << One >>, filtered_indices |-> << sorted_indices[1] >>]
        ELSE [filtered_probs |-> st.filtered_probs,
              filtered_indices |-> st.filtered_indices]))

\* Lines 73-113 of nucleus_sampling: normalize, rank, filter, draw.
NucleusBody(ws, top_p_, top_k_) ==
  Let(softmax_stable(ws), LAMBDA probs :
  Let(sort_indices_desc(probs), LAMBDA sorted_indices :
  Let(Filtered(probs, sorted_indices, top_p_, top_k_), LAMBDA f :
    [thrown |-> FALSE, kind |-> "none",
     ids |-> { f.filtered_indices[j + 1] : j \in sample_multinomial(f.filtered_probs) },
     work |-> {"softmax", "sort", "seed", "draw"}])))

\* nucleus_sampling with the emptiness test made after the normalization.
nucleus_sampling_checks_late(ws, top_p_, top_k_) ==
  IF Len(softmax_stable(ws)) = 0 THEN Thrown("invalid_argument", {"softmax"})
  ELSE NucleusBody(ws, top_p_, top_k_)

\* nucleus_sampling: the ids a call can return, or the exception it throws
\* (lines 69-71), and the stages it went through.
nucleus_sampling(ws, top_p_, top_k_) ==
  IF Len(ws) = 0 THEN Thrown("invalid_argument", {})
  ELSE NucleusBody(ws, top_p_, top_k_)

\* random_sampling: a draw from the full distribution.
random_sampling(ws) ==
  IF Len(ws) = 0 THEN Thrown("invalid_argument", {})
  ELSE Let(softmax_stable(ws), LAMBDA probs :
         [thrown |-> FALSE, kind |-> "none",
          ids |-> sample_multinomial(probs),
          work |-> {"softmax", "seed", "draw"}])

\* ---------------------------------------------------------- Repetition Guard
\* rep_num with the whole history counted.
RepNumWholeHistory(decoded, id, win_size_) ==
  Cardinality({ i \in 1..Len(decoded) : decoded[i] = id })

\* Lines 139-145: occurrences of id from window_start on.
RepNum(decoded, id, win_size_) ==
  LET window_start == Max(0, Len(decoded) - win_size_)
  IN  Cardinality({ i \in (window_start + 1)..Len(decoded) : decoded[i] = id })

\* static_cast<int>(win_size * tau_r)
Threshold(win_size_, tau_r_) == (win_size_ * tau_r_) \div One

\* The test of line 148 with the comparison made strict.
RepetitionMetStrict(rep_num, win_size_, tau_r_) ==
  rep_num > Threshold(win_size_, tau_r_)

\* if (rep_num >= static_cast<int>(win_size * tau_r))
RepetitionMet(rep_num, win_size_, tau_r_) ==
  rep_num >= Threshold(win_size_, tau_r_)

\* ras_sampling: every (candidate, redrawn?, returned id) a call can produce.
ras_sampling(ws, decoded, speech_token_size_, top_p_, top_k_, win_size_, tau_r_) ==
  Let(nucleus_sampling(ws, top_p_, top_k_), LAMBDA nuc :
    IF nuc.thrown THEN [thrown |-> TRUE, kind |-> nuc.kind, outs |-> {}, work |-> nuc.work]
    ELSE [thrown |-> FALSE, kind |-> "none", work |-> nuc.work,
          outs |->
            UNION { IF RepetitionMet(RepNum(decoded, top_id_, win_size_), win_size_, tau_r_)
                    THEN Let(random_sampling(ws), LAMBDA rnd :
                           { [cand |-> top_id_, redrew |-> TRUE, id |-> i,
                              work |-> nuc.work \cup rnd.work] : i \in rnd.ids })
                    ELSE { [cand |-> top_id_, redrew |-> FALSE, id |-> top_id_,
                            work |-> nuc.work] }
                    : top_id_ \in nuc.ids }])

\* --------------------------------------------------------- Termination Filter
\* The acceptance test with the sample accepted whatever it is.
AcceptSampleAlways(ignore_eos_, speech_token_size_, id) == TRUE

\* The acceptance test with the ignore_eos flag left out.
AcceptSampleNoFlag(ignore_eos_, speech_token_size_, id) ==
  speech_token_size_ < 0 \/ id # speech_token_size_

\* if (!ignore_eos || (speech_token_size < 0 || top_id != speech_token_size))
AcceptSample(ignore_eos_, speech_token_size_, id) ==
  ~ignore_eos_ \/ (speech_token_size_ < 0 \/ id # speech_token_size_)

\* The exhaustion test with the comparison made inclusive.
TrialsExceededInclusive(num_trials_, max_trials_) == num_trials_ >= max_trials_

\* if (num_trials > max_trials)
TrialsExceeded(num_trials_, max_trials_) == num_trials_ > max_trials_

\* ------------------------------------------------------------------- state
VARIABLES
  op,                \* the function the caller calls
  weighted_scores,   \* argument: the scores (for sort_indices_desc: v)
  decoded_tokens,    \* argument: the decoded history
  speech_token_size, \* argument: the eos id (negative: none)
  ignore_eos,        \* argument
  max_trials,        \* argument
  top_p, top_k, win_size, tau_r,
                     \* the caller's sampling parameters: arguments of
                     \* nucleus_sampling and ras_sampling, and the TestCase
                     \* fields of the caller of sampling_ids
  pc,                \* "Called" | "Sampling" | "Returned" | "Accepted" |
                     \* "Exhausted" | "EmptyInput"
  num_trials,        \* local of sampling_ids
  top_id,            \* local of sampling_ids / ras_sampling (-1 at first)
  ret,               \* <<>> until the call returns, then << value >>
  err,               \* the exception thrown, if any
  cand,              \* the id nucleus_sampling returned in the last pipeline run
  redrew,            \* whether the last pipeline run called random_sampling
  work,              \* the stages gone through so far: "softmax", "sort",
                     \* "seed" (a static generator seeded), "draw"
  runs               \* pipeline runs (calls of ras_sampling) made so far

vars == << op, weighted_scores, decoded_tokens, speech_token_size, ignore_eos,
           max_trials, top_p, top_k, win_size, tau_r, pc, num_trials, top_id,
           ret, err, cand, redrew, work, runs >>

args == << op, weighted_scores, decoded_tokens, speech_token_size, ignore_eos,
           max_trials, top_p, top_k, win_size, tau_r >>

NoError == [kind |-> "none", limit |-> -1]

\* ------------------------------------------------------------------ inputs
ScoreVals == {NegInf, 0, 10}

ScoreVectors == UNION { [1..n -> ScoreVals] : n \in 0..MaxN }

Histories == UNION { [1..n -> 0..1] : n \in 0..MaxHist }

EosIds == {-1, 0, 1}

\* weighted_scores, decoded_tokens and speech_token_size of src/test.cpp.
TestScores == << 12, 34, 5, 56, 21, 40, 18, 9, 27, 33 >>

TestHistory == << 1, 5, 2, 8, 1, 3, 7, 1, 4, 9, 6, 1, 0, 2, 5 >>

\* eos_scores of test 5: -10.0 everywhere, 100.0 at the eos id.
EosScores == [i \in 1..10 |-> IF i = 10 THEN 1000 ELSE -100]

\* The small_vocab case of src/test_cpp_output.cpp.
SmallVocabScores == << 20, -10, 35 >>

SmallVocabHistory == << 0, 1, 0, 2, 0 >>

\* Vectors handed to sort_indices_desc.
ProbVectors == UNION { [1..n -> {0, 2500, 5000}] : n \in 0..MaxLen }

\* (top_p, top_k, win_size, tau_r) of the caller of sampling_ids: the
\* defaults, and those of the small_vocab case.
CallerConfigs ==
  { [top_p |-> DefaultTopP, top_k |-> DefaultTopK, win_size |-> DefaultWinSize, tau_r |-> DefaultTauR],
    [top_p |-> 6000, top_k |-> 3, win_size |-> 5, tau_r |-> 1000] }

Start(o, first_pc) ==
  /\ op = o
  /\ pc = first_pc
  /\ num_trials = 0
  /\ top_id = -1
  /\ ret = <<>>
  /\ err = NoError
  /\ cand = -1
  /\ redrew = FALSE
  /\ work = {}
  /\ runs = 0

InitSamplingIds ==
  /\ Start("sampling_ids", "Sampling")
  /\ \/ /\ weighted_scores \in ScoreVectors
        /\ decoded_tokens \in Histories
        /\ speech_token_size \in EosIds
        /\ max_trials \in 0..MaxTrials
     \/ /\ weighted_scores \in {TestScores, EosScores}
        /\ decoded_tokens = TestHistory
        /\ speech_token_size = 9
        /\ max_trials \in {0, 5}
     \/ /\ weighted_scores = SmallVocabScores
        /\ decoded_tokens = SmallVocabHistory
        /\ speech_token_size = 2
        /\ max_trials \in {0, 5}
  /\ ignore_eos \in BOOLEAN
  /\ \E c \in CallerConfigs :
       /\ top_p = c.top_p
       /\ top_k = c.top_k
       /\ win_size = c.win_size
       /\ tau_r = c.tau_r

InitRasSampling ==
  /\ Start("ras_sampling", "Called")
  /\ \/ /\ weighted_scores \in ScoreVectors
        /\ decoded_tokens \in Histories
        /\ \/ top_p = 5000 /\ top_k = 1
           \/ top_p = DefaultTopP /\ top_k = DefaultTopK
        /\ win_size \in 0..MaxWin
        /\ tau_r \in {0, DefaultTauR, 5000, One}
     \/ /\ weighted_scores = TestScores
        /\ decoded_tokens \in {TestHistory, SubSeq(TestHistory, 1, 5), <<>>}
        /\ top_p = DefaultTopP
        /\ top_k = DefaultTopK
        /\ win_size \in {DefaultWinSize, 5}
        /\ tau_r \in {DefaultTauR, 5000}
  /\ speech_token_size = 9
  /\ ignore_eos = TRUE
  /\ max_trials = 0

InitNucleusSampling ==
  /\ Start("nucleus_sampling", "Called")
  /\ weighted_scores \in ScoreVectors \cup {TestScores, SmallVocabScores}
  /\ top_p \in {0, 5000, 6000, DefaultTopP, One}
  /\ top_k \in {0, 1, 2, DefaultTopK}
  /\ decoded_tokens = <<>>
  /\ speech_token_size = -1
  /\ ignore_eos = TRUE
  /\ max_trials = 0
  /\ win_size = 0
  /\ tau_r = 0

InitNoConfig(o, vectors) ==
  /\ Start(o, "Called")
  /\ weighted_scores \in vectors
  /\ top_p = 0
  /\ top_k = 0
  /\ decoded_tokens = <<>>
  /\ speech_token_size = -1
  /\ ignore_eos = TRUE
  /\ max_trials = 0
  /\ win_size = 0
  /\ tau_r = 0

Init ==
  \/ InitSamplingIds
  \/ InitRasSampling
  \/ InitNucleusSampling
  \/ InitNoConfig("random_sampling", ScoreVectors \cup {TestScores})
  \/ InitNoConfig("softmax_stable", ScoreVectors \cup {TestScores, EosScores})
  \/ InitNoConfig("sort_indices_desc", ProbVectors)

\* ----------------------------------------------------------------- actions
\* One iteration of the loop of sampling_ids (lines 168-181), and the return
\* of line 182 when the iteration leaves the loop.  The function's static
\* generator is seeded on entry (lines 162-163), before the first iteration.
SamplingIdsTrial ==
  /\ op = "sampling_ids"
  /\ pc = "Sampling"
  /\ \E r \in { ras_sampling(weighted_scores, decoded_tokens, speech_token_size,
                             DefaultTopP, DefaultTopK, DefaultWinSize, DefaultTauR) } :
         IF r.thrown
         THEN /\ pc' = "EmptyInput"
              /\ err' = [kind |-> r.kind, limit |-> -1]
              /\ work' = work \cup {"seed"} \cup r.work
              /\ runs' = runs + 1
              /\ UNCHANGED << num_trials, top_id, ret, cand, redrew >>
         ELSE \E o \in r.outs :
                /\ top_id' = o.id
                /\ cand' = o.cand
                /\ redrew' = o.redrew
                /\ work' = work \cup {"seed"} \cup o.work
                /\ runs' = runs + 1
                /\ IF AcceptSample(ignore_eos, speech_token_size, o.id)
                   THEN /\ pc' = "Accepted"
                        /\ ret' = << o.id >>
                        /\ UNCHANGED << num_trials, err >>
                   ELSE /\ num_trials' = num_trials + 1
                        /\ ret' = ret
                        /\ IF TrialsExceeded(num_trials + 1, max_trials)
                           THEN /\ pc' = "Exhausted"
                                /\ err' = [kind |-> "runtime_error", limit |-> max_trials]
                           ELSE /\ pc' = "Sampling"
                                /\ err' = err
  /\ UNCHANGED args

\* A direct call of ras_sampling with the caller's parameters.
RasSamplingCall ==
  /\ op = "ras_sampling"
  /\ pc = "Called"
  /\ \E r \in { ras_sampling(weighted_scores, decoded_tokens, speech_token_size,
                             top_p, top_k, win_size, tau_r) } :
         IF r.thrown
         THEN /\ pc' = "EmptyInput"
              /\ err' = [kind |-> r.kind, limit |-> -1]
              /\ work' = work \cup r.work
              /\ UNCHANGED << top_id, ret, cand, redrew >>
         ELSE \E o \in r.outs :
                /\ pc' = "Returned"
                /\ top_id' = o.id
                /\ ret' = << o.id >>
                /\ cand' = o.cand
                /\ redrew' = o.redrew
                /\ work' = work \cup o.work
                /\ err' = err
  /\ runs' = runs + 1
  /\ UNCHANGED << args, num_trials >>

\* A direct call of nucleus_sampling or random_sampling.
DirectCall(o, r) ==
  /\ op = o
  /\ pc = "Called"
  /\ IF r.thrown
     THEN /\ pc' = "EmptyInput"
          /\ err' = [kind |-> r.kind, limit |-> -1]
          /\ UNCHANGED << ret, cand >>
     ELSE \E id \in r.ids :
            /\ pc' = "Returned"
            /\ ret' = << id >>
            /\ cand' = id
            /\ err' = err
  /\ work' = work \cup r.work
  /\ UNCHANGED << args, num_trials, top_id, redrew, runs >>

NucleusSamplingCall ==
  DirectCall("nucleus_sampling", nucleus_sampling(weighted_scores, top_p, top_k))

RandomSamplingCall ==
  DirectCall("random_sampling", random_sampling(weighted_scores))

\* A direct call of a helper that returns a vector.
HelperCall(o, result, stage) ==
  /\ op = o
  /\ pc = "Called"
  /\ pc' = "Returned"
  /\ ret' = << result >>
  /\ work' = work \cup {stage}
  /\ UNCHANGED << args, num_trials, top_id, err, cand, redrew, runs >>

SoftmaxStableCall ==
  HelperCall("softmax_stable", softmax_stable(weighted_scores), "softmax")

SortIndicesDescCall ==
  HelperCall("sort_indices_desc", sort_indices_desc(weighted_scores), "sort")

Next ==
  \/ SamplingIdsTrial
  \/ RasSamplingCall
  \/ NucleusSamplingCall
  \/ RandomSamplingCall
  \/ SoftmaxStableCall
  \/ SortIndicesDescCall

Spec == Init /\ [][Next]_vars

\* The behaviours of one call of sampling_ids.  The loop is synchronous and
\* waits for nothing, so an iteration that can run does run.
FairSpec ==
  InitSamplingIds /\ [][SamplingIdsTrial]_vars /\ WF_vars(SamplingIdsTrial)

\* ============================================================== properties
\* What the properties are stated with, written from the definitions of the
\* terms and not from the code that computes them.

\* The distribution the pipeline works on.
Probs == softmax_stable(weighted_scores)

\* The ids of positive probability.
Support == { i \in 0..(Len(Probs) - 1) : Probs[i + 1] > 0 }

Ranked == sort_indices_desc(Probs)

\* Probability mass of the first k ranked indices.
RECURSIVE RankedMass(_)
RankedMass(k) == IF k = 0 THEN 0 ELSE RankedMass(k - 1) + Probs[Ranked[k] + 1]

\* The candidate set for (p, k): the i-th ranked index, i <= min(k, n), is in
\* it exactly when the mass accumulated before it is strictly below p.
CandidateSet(p, k) ==
  { Ranked[i] : i \in { j \in 1..Min(k, Len(Ranked)) : RankedMass(j - 1) < p } }

\* Occurrences of id among the last min(w, |history|) entries of the history.
WindowCount(id, w) ==
  Cardinality({ i \in 1..Len(decoded_tokens) :
                  i > Len(decoded_tokens) - w /\ decoded_tokens[i] = id })

\* floor(w * fraction), the fraction in fixed point.
FloorThreshold(w, fraction) ==
  CHOOSE t \in 0..(w + 1) : t * One <= w * fraction /\ w * fraction < (t + 1) * One

PublicOps == {"sampling_ids", "ras_sampling", "nucleus_sampling", "random_sampling"}

Filtering == op = "sampling_ids" /\ ignore_eos /\ speech_token_size >= 0

\* --------------------------------------------------------------------- C1
C1_Counts ==
  Filtering =>
    /\ pc = "Sampling" => num_trials <= max_trials /\ runs = num_trials
    /\ pc = "Exhausted" =>
         /\ num_trials = max_trials + 1
         /\ runs = max_trials + 1
         /\ top_id = speech_token_size
         /\ err = [kind |-> "runtime_error", limit |-> max_trials]
    /\ pc = "Accepted" => num_trials <= max_trials
    /\ Support = {speech_token_size} => pc # "Accepted"

C1_Step ==
  Filtering /\ pc = "Sampling" /\ top_id' = speech_token_size /\ pc' # "EmptyInput" =>
    /\ num_trials' = num_trials + 1
    /\ pc' = (IF num_trials' > max_trials THEN "Exhausted" ELSE "Sampling")

\* C1: with ignore_eos and an eos id, every draw of the eos id is one trial;
\* the call fails with the runtime error citing max_trials exactly when the
\* trials exceed max_trials, that is after max_trials + 1 rejected draws and
\* never earlier; and when only the eos id can be drawn the call ends
\* Exhausted: it neither returns a token nor runs for ever.
C1_ExhaustedExactlyAfterMaxTrialsPlusOne ==
  /\ []C1_Counts
  /\ [][C1_Step]_vars
  /\ (Filtering /\ Support = {speech_token_size}) ~> (pc = "Exhausted")

C1_Witness ==
  /\ Filtering
  /\ pc = "Exhausted"
  /\ Support = {speech_token_size}
  /\ max_trials = 5
  /\ num_trials = 6
  /\ err.limit = 5

\* --------------------------------------------------------------------- C2
\* C2: with ignore_eos and an eos id, an id sampling_ids returns is never the
\* eos id, redrawn by the Repetition Guard or not; and when the call is
\* exhausted it returns nothing.
C2_ReturnedIdIsNotEos ==
  Filtering =>
    /\ ret # << speech_token_size >>
    /\ pc = "Accepted" => ret = << top_id >> /\ top_id # speech_token_size
    /\ pc = "Exhausted" => ret = <<>> /\ err.kind = "runtime_error"

C2_Witness ==
  /\ Filtering
  /\ pc = "Accepted"
  /\ redrew
  /\ num_trials > 0
  /\ speech_token_size \in Support
  /\ ret # << speech_token_size >>

\* --------------------------------------------------------------------- C3
\* C3: without ignore_eos, or without an eos id, sampling_ids runs the
\* pipeline once and accepts what it drew, the eos id included: no trial is
\* counted and the call is never exhausted, whatever max_trials is.
C3_FirstDrawAccepted ==
  op = "sampling_ids" /\ (~ignore_eos \/ speech_token_size < 0) =>
    /\ num_trials = 0
    /\ pc # "Exhausted"
    /\ pc = "Accepted" => runs = 1 /\ ret = << top_id >>
    /\ pc = "Sampling" =>
         /\ runs = 0
         /\ \A i \in 0..(Len(weighted_scores) - 1) :
              ENABLED (SamplingIdsTrial /\ top_id' = i) =>
                ENABLED (SamplingIdsTrial /\ top_id' = i /\ pc' = "Accepted" /\ ret' = << i >>)

C3_Witness ==
  /\ op = "sampling_ids"
  /\ ~ignore_eos
  /\ max_trials = 0
  /\ pc = "Accepted"
  /\ ret = << speech_token_size >>

\* --------------------------------------------------------------------- C4
\* C4: a public operation called with no scores throws invalid_argument
\* before it normalizes, ranks or draws (sampling_ids has at most seeded its
\* generator); it returns nothing and is not reported as exhausted; and only
\* an empty score vector is answered so.
C4_EmptyInputRejectedFirst ==
  op \in PublicOps =>
    /\ Len(weighted_scores) = 0 /\ pc \notin {"Called", "Sampling"} =>
         /\ pc = "EmptyInput"
         /\ err = [kind |-> "invalid_argument", limit |-> -1]
         /\ work \cap {"softmax", "sort", "draw"} = {}
         /\ work = (IF op = "sampling_ids" THEN {"seed"} ELSE {})
         /\ ret = <<>>
         /\ num_trials = 0
    /\ pc = "EmptyInput" => Len(weighted_scores) = 0

C4_Witness ==
  /\ op = "sampling_ids"
  /\ pc = "EmptyInput"
  /\ ~ignore_eos
  /\ max_trials = 0
  /\ decoded_tokens # <<>>

\* --------------------------------------------------------------------- C5
\* C5: every pipeline run of sampling_ids uses the caller's top_p, top_k,
\* win_size and tau_r: the candidate is in the caller's candidate set and
\* the Repetition Guard fires exactly when the count in the caller's window
\* reaches the caller's threshold.
C5_CallerParametersUsed ==
  op = "sampling_ids" /\ runs > 0 /\ pc # "EmptyInput" =>
    /\ cand \in (IF CandidateSet(top_p, top_k) = {} THEN {Ranked[1]}
                 ELSE CandidateSet(top_p, top_k))
    /\ redrew <=> WindowCount(cand, win_size) >= FloorThreshold(win_size, tau_r)

\* --------------------------------------------------------------------- C6
C6_Guard ==
  op = "ras_sampling" /\ pc = "Returned" =>
    LET c == WindowCount(cand, win_size)
        t == FloorThreshold(win_size, tau_r)
    IN  /\ c >= t => redrew /\ ret[1] \in Support
        /\ c < t => ~redrew /\ ret = << cand >>

C6_Redraw ==
  op = "ras_sampling" /\ pc = "Called" /\ Len(weighted_scores) > 0 =>
    \A c \in 0..(Len(weighted_scores) - 1) :
      (ENABLED (RasSamplingCall /\ cand' = c)
         /\ WindowCount(c, win_size) >= FloorThreshold(win_size, tau_r)) =>
        \A i \in Support : ENABLED (RasSamplingCall /\ cand' = c /\ ret' = << i >>)

C6_Scenario ==
  op = "ras_sampling" /\ decoded_tokens = TestHistory
     /\ win_size = 10 /\ tau_r = 1000 =>
    /\ Threshold(win_size, tau_r) = 1
    /\ RepNum(decoded_tokens, 1, win_size) = 2
    /\ pc = "Returned" /\ cand = 1 => redrew

C7_NucleusWithinCandidateSet ==
  op = "nucleus_sampling" /\ pc = "Returned" =>
    /\ CandidateSet(top_p, top_k) # {} => ret[1] \in CandidateSet(top_p, top_k)
    /\ CandidateSet(top_p, top_k) = {} => ret = << Ranked[1] >>
    /\ Probs[Ranked[1] + 1] >= top_p => ret = << Ranked[1] >>
    /\ top_k <= 0 \/ top_p <= 0 <=> CandidateSet(top_p, top_k) = {}

C7_Witness ==
  /\ op = "nucleus_sampling"
  /\ pc = "Returned"
  /\ Cardinality(CandidateSet(top_p, top_k)) = 2
  /\ Len(weighted_scores) > 2
  /\ ret = << Ranked[2] >>

\* --------------------------------------------------------------------- C8
\* C8 as stated: softmax_stable answers an empty vector with an error.
C8_EmptySoftmaxIsError ==
  op = "softmax_stable" /\ Len(weighted_scores) = 0 /\ pc # "Called" =>
    pc = "EmptyInput" /\ err.kind # "none"

\* C8, amended: softmax_stable answers an empty vector with an empty vector
\* and no error; the error for empty scores is raised by the public
\* operations, which never call softmax_stable with them.
C8_EmptySoftmaxIsEmpty ==
  /\ op = "softmax_stable" /\ Len(weighted_scores) = 0 /\ pc # "Called" =>
       pc = "Returned" /\ ret = << <<>> >> /\ err = NoError
  /\ op \in PublicOps /\ Len(weighted_scores) = 0 /\ pc \notin {"Called", "Sampling"} =>
       pc = "EmptyInput" /\ "softmax" \notin work

C8_Witness ==
  /\ op = "softmax_stable"
  /\ Len(weighted_scores) = 0
  /\ pc = "Returned"
  /\ ret = << <<>> >>

\* --------------------------------------------------------------------- C9
\* C9: the result of sort_indices_desc is a permutation of 0..n-1 along
\* which the values do not increase and equal values keep their index
\* order; strictly decreasing and all-equal inputs give the identity.
C9_StableDescendingPermutation ==
  op = "sort_indices_desc" /\ pc = "Returned" =>
    LET v == weighted_scores
        n == Len(v)
        out == ret[1]
    IN  /\ Len(out) = n
        /\ { out[i] : i \in 1..n } = 0..(n - 1)
        /\ \A i, j \in 1..n : i < j =>
             /\ v[out[i] + 1] >= v[out[j] + 1]
             /\ v[out[i] + 1] = v[out[j] + 1] => out[i] < out[j]
        /\ (\A i \in 1..(n - 1) : v[i] > v[i + 1]) => out = [i \in 1..n |-> i - 1]
        /\ (\A i \in 1..n : v[i] = v[1]) => out = [i \in 1..n |-> i - 1]

C9_Witness ==
  /\ op = "sort_indices_desc"
  /\ pc = "Returned"
  /\ weighted_scores = << 0, 5000, 5000 >>
  /\ ret = << << 1, 2, 0 >> >>

\* -------------------------------------------------------------------- C10
\* C10: when floor(win_size * tau_r) is 0 the Repetition Guard fires for
\* every candidate and history, so ras_sampling returns a draw from the full
\* distribution: the ids it can return are those of positive probability,
\* whatever top_p and top_k are.
C10_ZeroThresholdAlwaysRedraws ==
  op = "ras_sampling" /\ FloorThreshold(win_size, tau_r) = 0 =>
    /\ pc = "Returned" => redrew /\ ret[1] \in Support
    /\ pc = "Called" =>
         \A i \in 0..(Len(weighted_scores) - 1) :
           i \in Support <=> ENABLED (RasSamplingCall /\ ret' = << i >>)

C10_Witness ==
  /\ op = "ras_sampling"
  /\ FloorThreshold(win_size, tau_r) = 0
  /\ win_size > 0
  /\ decoded_tokens = <<>>
  /\ top_k = 1
  /\ pc = "Returned"
  /\ redrew
  /\ ret # << cand >>

====
